---------------------------- MODULE Spec2Model ----------------------------
(***************************************************************************)
(* Model of the retrieval engines of the repository:                       *)
(*   - RAGEngine       (src/rag_engine.py)                                 *)
(*   - AutoResearcher  (src/autoresearcher/orchestrator.py) with its       *)
(*     VectorStore     (src/autoresearcher/vector_store.py)                *)
(*   - the package's own RAGEngine (src/autoresearcher/rag_engine.py)      *)
(* One engine is in use in a run (variable engine).  A builder thread      *)
(* runs build_index and a reader thread runs the read operations; each     *)
(* step of a thread is one access to the shared registry or a stretch of   *)
(* purely local computation.  r2 is the frame of a second reader thread    *)
(* and ck the frame of a direct call of one of the chunkers.               *)
(*                                                                         *)
(* A text is a sequence of one-character strings.  Python positions are    *)
(* kept 0-based; TLA+ sequences are 1-based, so position i is element i+1. *)
(***************************************************************************)
EXTENDS Integers, Sequences, FiniteSets, TLC

VARIABLES engine, indexes, auto_indexes, vectorstores, stores, b, r, r2, ck

vars == <<engine, indexes, auto_indexes, vectorstores, stores, b, r, r2, ck>>

(***************************************************************************)
(* Bounds of the model.                                                    *)
(***************************************************************************)
MaxTopK == 3

(***************************************************************************)
(* Program constants.                                                      *)
(***************************************************************************)
WordChunkSize == 800
WordOverlap == 200
CharChunkSize == 800
CharOverlap == 100
LiteChunkSize == 500
LiteDefaultK == 4

\* Python's None
None == [py |-> "None"]

Min(x, y) == IF x <= y THEN x ELSE y
Max(x, y) == IF x >= y THEN x ELSE y

(***************************************************************************)
(* Python text primitives.                                                 *)
(***************************************************************************)
Whitespace == {" ", "\n"}

\* s[lo:hi] of Python, 0 <= lo, hi <= len(s)
Slice(s, lo, hi) == IF hi <= lo THEN <<>> ELSE SubSeq(s, lo + 1, hi)

RECURSIVE LStrip(_)
LStrip(s) == IF s # <<>> /\ Head(s) \in Whitespace THEN LStrip(Tail(s)) ELSE s

RECURSIVE RStrip(_)
RStrip(s) ==
    IF s # <<>> /\ s[Len(s)] \in Whitespace
    THEN RStrip(SubSeq(s, 1, Len(s) - 1))
    ELSE s

\* str.strip()
Strip(s) == RStrip(LStrip(s))

\* sep.join(parts)
RECURSIVE Join(_, _)
Join(parts, sep) ==
    IF parts = <<>> THEN <<>>
    ELSE IF Len(parts) = 1 THEN parts[1]
    ELSE parts[1] \o sep \o Join(Tail(parts), sep)

\* str.split(): the maximal runs of non-whitespace characters, in order
RECURSIVE SplitFrom(_, _, _, _)
SplitFrom(s, i, cur, out) ==
    IF i > Len(s) THEN (IF cur = <<>> THEN out ELSE Append(out, cur))
    ELSE IF s[i] \in Whitespace
         THEN SplitFrom(s, i + 1, <<>>, IF cur = <<>> THEN out ELSE Append(out, cur))
         ELSE SplitFrom(s, i + 1, Append(cur, s[i]), out)

Split(s) == SplitFrom(s, 1, <<>>, <<>>)

\* list.extend over a list of lists
RECURSIVE Flatten(_)
Flatten(ss) == IF ss = <<>> THEN <<>> ELSE Head(ss) \o Flatten(Tail(ss))

\* Python list indexing xs[i], negative positions counted from the end;
\* None stands for IndexError
PyIndex(xs, i) ==
    IF 0 <= i /\ i < Len(xs) THEN xs[i + 1]
    ELSE IF i < 0 /\ -i <= Len(xs) THEN xs[Len(xs) + i + 1]
    ELSE None

\* str.lower() of a file name, by its extension: the names of the model
\* end in ".pdf", ".PDF" or ".txt"
IsPdfLower(fname) == fname.ext \in {".pdf", ".PDF"}
IsPdfExact(fname) == fname.ext = ".pdf"

(***************************************************************************)
(* The file system the builds read.  A file is a name and the page texts   *)
(* that text extraction yields for it; a folder is a set of files, listed  *)
(* by os.listdir in an arbitrary order.                                    *)
(***************************************************************************)
File(stem, ext, pages) == [name |-> [stem |-> stem, ext |-> ext], pages |-> pages]

FolderIds == {"missing", "empty", "blank", "one", "two"}

Folder(f) ==
    CASE f = "missing" -> [isdir |-> FALSE, files |-> {}]
      [] f = "empty"   -> [isdir |-> TRUE,
                           files |-> {File("notes", ".txt", <<>>)}]
      [] f = "blank"   -> [isdir |-> TRUE,
                           files |-> {File("scan", ".pdf", << <<" ">> >>)}]
      [] f = "one"     -> [isdir |-> TRUE,
                           files |-> {File("a", ".pdf", << <<"a", " ", "b">> >>)}]
      [] f = "two"     -> [isdir |-> TRUE,
                           files |-> {File("a", ".pdf", << <<"a", "a">> >>),
                                      File("B", ".PDF",
                                           << <<"b">>, <<" ">>, <<"b", " ", "a">> >>)}]

\* os.listdir(folder): every order of the folder's files
ListDir(f) ==
    LET files == Folder(f).files
        n == Cardinality(files)
    IN  {l \in [1..n -> files] : \A i, j \in 1..n : i # j => l[i] # l[j]}

\* sorted() of paths in one folder: upper-case letters sort before lower-case
PathRank(name) ==
    CASE name.stem = "B"     -> 1
      [] name.stem = "a"     -> 2
      [] name.stem = "notes" -> 3
      [] name.stem = "scan"  -> 4

RECURSIVE SortFiles(_)
SortFiles(files) ==
    IF files = {} THEN <<>>
    ELSE LET first == CHOOSE x \in files :
                          \A y \in files : PathRank(x.name) <= PathRank(y.name)
         IN  <<first>> \o SortFiles(files \ {first})

Names == {"pets", "docs"}

Questions == {<<"a">>, <<"b">>}

TopKs == 0..MaxTopK

(***************************************************************************)
(* src/rag_engine.py: text loading and the word chunker.                   *)
(***************************************************************************)
\* load_pdf_text: the page texts joined by a newline
load_pdf_text(file) == Join(file.pages, <<"\n">>)

RECURSIVE WordChunkLoop(_, _, _, _, _)
WordChunkLoop(words, start, chunks, chunk_size, overlap) ==
    LET n == Len(words) IN
    IF ~(start < n) THEN chunks
    ELSE LET end == Min(start + chunk_size, n)
             chunk == Join(Slice(words, start, end), <<" ">>)
             chunks2 == IF Strip(chunk) # <<>> THEN Append(chunks, chunk) ELSE chunks
         IN  IF end = n THEN chunks2
             ELSE WordChunkLoop(words, Max(end - overlap, 0), chunks2,
                                chunk_size, overlap)

\* rag_engine.simple_chunk(text, chunk_size, overlap)
simple_chunk(text, chunk_size, overlap) ==
    WordChunkLoop(Split(text), 0, <<>>, chunk_size, overlap)

\* RAGEngine.list_pdfs applied to one directory listing
list_pdfs(listing) == SelectSeq(listing, LAMBDA file : IsPdfLower(file.name))

\* the loop of build_index over the PDFs (lines 83-88)
all_chunks_of(pdfs) ==
    Flatten([i \in 1..Len(pdfs) |->
                simple_chunk(load_pdf_text(pdfs[i]), WordChunkSize, WordOverlap)])

(***************************************************************************)
(* src/autoresearcher/pdf_loader.py: page loading and the character        *)
(* chunker.  A page id is <<file name, page number>>, a chunk id is the    *)
(* page id followed by the chunk counter.                                  *)
(***************************************************************************)
loader_list_pdfs(f) ==
    SortFiles({file \in Folder(f).files : IsPdfLower(file.name)})

PagesOfFile(file) ==
    LET kept == SelectSeq([i \in 1..Len(file.pages) |-> i],
                          LAMBDA i : Strip(file.pages[i]) # <<>>)
    IN  [k \in 1..Len(kept) |->
            [id       |-> <<file.name, kept[k]>>,
             text     |-> Strip(file.pages[kept[k]]),
             metadata |-> [source |-> file.name, page |-> kept[k],
                           filename |-> file.name]]]

\* load_pdfs, for a folder that holds PDFs
load_pdfs(f) ==
    LET paths == loader_list_pdfs(f)
    IN  Flatten([i \in 1..Len(paths) |-> PagesOfFile(paths[i])])

\* the while loop of pdf_loader.simple_chunk on one page:
\* <<chunks, chunk_counter>> when the loop ends
RECURSIVE CharChunkLoop(_, _, _, _, _, _)
CharChunkLoop(page, start, chunks, chunk_counter, chunk_size, overlap) ==
    LET n == Len(page.text) IN
    IF ~(start < n) THEN <<chunks, chunk_counter>>
    ELSE LET end == Min(start + chunk_size, n)
             chunk_text == Strip(Slice(page.text, start, end))
         IN  IF chunk_text = <<>> THEN <<chunks, chunk_counter>>
             ELSE LET chunks2 == Append(chunks,
                                   [id       |-> Append(page.id, chunk_counter),
                                    text     |-> chunk_text,
                                    metadata |-> page.metadata])
                  IN  IF end = n THEN <<chunks2, chunk_counter + 1>>
                      ELSE CharChunkLoop(page, Max(0, end - overlap), chunks2,
                                         chunk_counter + 1, chunk_size, overlap)

RECURSIVE CharChunkPages(_, _, _, _, _)
CharChunkPages(pages, chunks, chunk_counter, chunk_size, overlap) ==
    IF pages = <<>> THEN chunks
    ELSE LET got == CharChunkLoop(Head(pages), 0, chunks, chunk_counter,
                                  chunk_size, overlap)
         IN  CharChunkPages(Tail(pages), got[1], got[2], chunk_size, overlap)

\* pdf_loader.simple_chunk(pages, chunk_size, overlap)
loader_simple_chunk(pages, chunk_size, overlap) ==
    CharChunkPages(pages, <<>>, 0, chunk_size, overlap)

(***************************************************************************)
(* src/autoresearcher/rag_engine.py: page loading and chunking.            *)
(***************************************************************************)
lite_list_pdfs(listing) == SelectSeq(listing, LAMBDA file : IsPdfExact(file.name))

\* load_pdfs: every page whose extracted text is not the empty string
lite_load_pdfs(pdfs) ==
    Flatten([i \in 1..Len(pdfs) |->
                SelectSeq(pdfs[i].pages, LAMBDA text : text # <<>>)])

RECURSIVE LiteChunkText(_, _, _)
LiteChunkText(words, i, size) ==
    IF i >= Len(words) THEN <<>>
    ELSE <<Join(Slice(words, i, Min(i + size, Len(words))), <<" ">>)>>
         \o LiteChunkText(words, i + size, size)

\* RAGEngine.chunk(texts, size)
lite_chunk(texts, size) ==
    Flatten([i \in 1..Len(texts) |-> LiteChunkText(Split(texts[i]), 0, size)])

(***************************************************************************)
(* The embedder and the flat L2 index (external libraries).  The embedder  *)
(* is a fixed deterministic map from a text to a vector: here the numbers   *)
(* of "a" and of "b" in the text.  Given a dict, the embedder reads the    *)
(* dict's first value, which for a loader chunk is its id.                 *)
(***************************************************************************)
Count(text, c) == Len(SelectSeq(text, LAMBDA x : x = c))

EncodeText(text) == <<Count(text, "a"), Count(text, "b")>>

EncodeDict(chunk) == <<chunk.id[2], chunk.id[3]>>

\* encoder.encode(list of str)
encode(texts) == [i \in 1..Len(texts) |-> EncodeText(texts[i])]

\* model.encode(list of dict)
encode_dicts(chunks) == [i \in 1..Len(chunks) |-> EncodeDict(chunks[i])]

\* squared Euclidean distance
L2(u, v) == (u[1] - v[1]) * (u[1] - v[1]) + (u[2] - v[2]) * (u[2] - v[2])

\* faiss.IndexFlatL2(dim) followed by index.add(embeddings)
IndexFlatL2(embeddings) == [d |-> 2, vectors |-> embeddings]

\* index.search(q, k) for k >= 1: the label rows I[0] the index may return.
\* The min(k, ntotal) nearest positions come first, by non-decreasing
\* distance (ties in any order); missing slots hold the label -1.
IndexSearch(index, q, k) ==
    LET n == Len(index.vectors)
        m == Min(k, n)
        D(p) == L2(index.vectors[p + 1], q)
    IN  {I \in [1..k -> -1..(n - 1)] :
            /\ \A j \in 1..k : (j <= m) <=> (I[j] # -1)
            /\ \A i, j \in 1..m : i # j => I[i] # I[j]
            /\ \A j \in 1..(m - 1) : D(I[j]) <= D(I[j + 1])
            /\ \A p \in 0..(n - 1) :
                  (\A j \in 1..m : I[j] # p) => \A j \in 1..m : D(I[j]) <= D(p)}

(***************************************************************************)
(* Exceptions and thread frames.  A thread is idle, inside a call (pc is   *)
(* the line it is about to run, its locals are the other fields), or has   *)
(* left the call: "returned" with the value, "raised" with the exception.  *)
(***************************************************************************)
Exc(type, msg) == [type |-> type, msg |-> msg]

Idle == [pc |-> "idle"]

Raise(frame, exc) == [pc |-> "raised", raised |-> exc] @@ frame

Return(frame, value) == [pc |-> "returned", returned |-> value] @@ frame

\* dict[name] = value
Put(dict, name, value) ==
    [n \in DOMAIN dict \cup {name} |-> IF n = name THEN value ELSE dict[n]]

\* the failure of one call of the embedder (out of memory, model not loaded)
EncoderFailure == Exc("RuntimeError", "encoder failed")

\* index.search(q, 0): the library either refuses k = 0 or returns no label
SearchRefusal == Exc("AssertionError", "k > 0")

Engines == {"rag", "auto", "lite"}

Init ==
    /\ engine \in Engines
    /\ indexes = <<>>
    /\ auto_indexes = <<>>
    /\ vectorstores = <<>>
    /\ stores = <<>>
    /\ b = Idle
    /\ r = Idle
    /\ r2 = Idle
    /\ ck = Idle

\* the caller takes the outcome of a finished build_index
BuildDone ==
    /\ b.pc \in {"returned", "raised"}
    /\ b' = Idle
    /\ UNCHANGED <<engine, indexes, auto_indexes, vectorstores, stores, r, r2, ck>>

\* the caller takes the outcome of a finished read operation
ReadDone ==
    /\ r.pc \in {"returned", "raised"}
    /\ r' = Idle
    /\ UNCHANGED <<engine, indexes, auto_indexes, vectorstores, stores, b, r2, ck>>

(***************************************************************************)
(* RAGEngine.build_index (src/rag_engine.py)                               *)
(***************************************************************************)
RAG_BuildCall(name, folder) ==
    /\ engine = "rag"
    /\ b.pc = "idle"
    /\ b' = [pc |-> "l76", name |-> name, folder |-> folder]
    /\ UNCHANGED <<engine, indexes, auto_indexes, vectorstores, stores, r, r2, ck>>

\* lines 76-81
RAG_BuildList ==
    /\ engine = "rag"
    /\ b.pc = "l76"
    /\ IF ~Folder(b.folder).isdir
       THEN b' = Raise(b, Exc("ValueError", "Folder does not exist"))
       ELSE \E listing \in ListDir(b.folder) :
                LET pdfs == list_pdfs(listing) IN
                IF pdfs = <<>>
                THEN b' = Raise(b, Exc("ValueError", "No PDFs found in folder"))
                ELSE b' = [pc |-> "l83", pdfs |-> pdfs] @@ b
    /\ UNCHANGED <<engine, indexes, auto_indexes, vectorstores, stores, r, r2, ck>>

\* a chunking step that registers the chunk list before it checks it
RAG_BuildChunk_StoreFirst ==
    /\ engine = "rag"
    /\ b.pc = "l83"
    /\ LET all_chunks == all_chunks_of(b.pdfs) IN
       /\ indexes' = Put(indexes, b.name, [chunks |-> all_chunks])
       /\ IF all_chunks = <<>>
          THEN b' = Raise(b, Exc("ValueError", "No text chunks extracted from PDFs."))
          ELSE b' = [pc |-> "l95", all_chunks |-> all_chunks] @@ b
    /\ UNCHANGED <<engine, auto_indexes, vectorstores, stores, r, r2, ck>>

\* a chunking step without the check of lines 90-91
RAG_BuildChunk_NoCheck ==
    /\ engine = "rag"
    /\ b.pc = "l83"
    /\ LET all_chunks == all_chunks_of(b.pdfs) IN
       b' = [pc |-> "l95", all_chunks |-> all_chunks] @@ b
    /\ UNCHANGED <<engine, indexes, auto_indexes, vectorstores, stores, r, r2, ck>>

\* lines 83-91
RAG_BuildChunk ==
    /\ engine = "rag"
    /\ b.pc = "l83"
    /\ LET all_chunks == all_chunks_of(b.pdfs) IN
       IF all_chunks = <<>>
       THEN b' = Raise(b, Exc("ValueError", "No text chunks extracted from PDFs."))
       ELSE b' = [pc |-> "l95", all_chunks |-> all_chunks] @@ b
    /\ UNCHANGED <<engine, indexes, auto_indexes, vectorstores, stores, r, r2, ck>>

\* lines 94-101
RAG_BuildEmbed ==
    /\ engine = "rag"
    /\ b.pc = "l95"
    /\ \/ b' = Raise(b, EncoderFailure)
       \/ LET embeddings == encode(b.all_chunks) IN
          b' = [pc |-> "l104", embeddings |-> embeddings,
                index |-> IndexFlatL2(embeddings)] @@ b
    /\ UNCHANGED <<engine, indexes, auto_indexes, vectorstores, stores, r, r2, ck>>

\* a store that updates a registered entry in place, the chunk list only
RAG_BuildStore_InPlace ==
    /\ engine = "rag"
    /\ b.pc = "l104"
    /\ indexes' = IF b.name \in DOMAIN indexes
                  THEN [indexes EXCEPT ![b.name].chunks = b.all_chunks]
                  ELSE Put(indexes, b.name,
                           [chunks     |-> b.all_chunks,
                            index      |-> b.index,
                            embeddings |-> b.embeddings])
    /\ b' = [pc |-> "l110"] @@ b
    /\ UNCHANGED <<engine, auto_indexes, vectorstores, stores, r, r2, ck>>

\* a store that makes a new dict holding the new entry alone
RAG_BuildStore_Replace ==
    /\ engine = "rag"
    /\ b.pc = "l104"
    /\ indexes' = Put(<<>>, b.name,
                      [chunks     |-> b.all_chunks,
                       index      |-> b.index,
                       embeddings |-> b.embeddings])
    /\ b' = [pc |-> "l110"] @@ b
    /\ UNCHANGED <<engine, auto_indexes, vectorstores, stores, r, r2, ck>>

\* lines 104-108: one assignment to the dict
RAG_BuildStore ==
    /\ engine = "rag"
    /\ b.pc = "l104"
    /\ indexes' = Put(indexes, b.name,
                      [chunks     |-> b.all_chunks,
                       index      |-> b.index,
                       embeddings |-> b.embeddings])
    /\ b' = [pc |-> "l110"] @@ b
    /\ UNCHANGED <<engine, auto_indexes, vectorstores, stores, r, r2, ck>>

\* lines 110-111
RAG_BuildReturn ==
    /\ engine = "rag"
    /\ b.pc = "l110"
    /\ b' = Return(b, Len(b.all_chunks))
    /\ UNCHANGED <<engine, indexes, auto_indexes, vectorstores, stores, r, r2, ck>>

\* RAGEngine.has_index
has_index(name) == name \in DOMAIN indexes

(***************************************************************************)
(* RAGEngine.query and RAGEngine.answer (src/rag_engine.py)                *)
(***************************************************************************)
\* the separator of line 138
ContextSeparator == <<"\n", "\n", "-", "-", "-", "\n", "\n">>

RAG_ReadCall(op, name, question, top_k) ==
    /\ engine = "rag"
    /\ r.pc = "idle"
    /\ r' = [pc |-> "l123", op |-> op, name |-> name, question |-> question,
             top_k |-> top_k, calls |-> 0]
    /\ UNCHANGED <<engine, indexes, auto_indexes, vectorstores, stores, b, r2, ck>>

\* a lookup that answers an unknown name with an empty result
RAG_QueryCheck_Default ==
    /\ engine = "rag"
    /\ r.pc = "l123"
    /\ IF r.name \notin DOMAIN indexes
       THEN r' = Return(r, <<<<>>, <<>>>>)
       ELSE r' = [pc |-> "l126"] @@ r
    /\ UNCHANGED <<engine, indexes, auto_indexes, vectorstores, stores, b, r2, ck>>

\* lines 123-124
RAG_QueryCheck ==
    /\ engine = "rag"
    /\ r.pc = "l123"
    /\ IF r.name \notin DOMAIN indexes
       THEN r' = Raise(r, Exc("ValueError", "Index not found. Build it first."))
       ELSE r' = [pc |-> "l126"] @@ r
    /\ UNCHANGED <<engine, indexes, auto_indexes, vectorstores, stores, b, r2, ck>>

\* lines 126-128: one read of the dict, then two reads of the entry read
RAG_QueryLoad ==
    /\ engine = "rag"
    /\ r.pc = "l126"
    /\ LET data == indexes[r.name] IN
       r' = [pc |-> "l130", data |-> data, index |-> data.index,
             chunks |-> data.chunks] @@ r
    /\ UNCHANGED <<engine, indexes, auto_indexes, vectorstores, stores, b, r2, ck>>

\* a search step whose failure is swallowed: answer goes on with no context
RAG_QuerySearch_Swallow ==
    /\ engine = "rag"
    /\ r.pc = "l130"
    /\ \/ r' = IF r.op = "answer"
               THEN [pc |-> "l147", context |-> <<>>] @@ r
               ELSE Raise(r, EncoderFailure)
       \/ LET q_emb == EncodeText(r.question) IN
          IF r.top_k = 0
          THEN \/ r' = Raise(r, SearchRefusal)
               \/ r' = [pc |-> "l133", I |-> <<>>] @@ r
          ELSE \E I \in IndexSearch(r.index, q_emb, r.top_k) :
                   r' = [pc |-> "l133", I |-> I] @@ r
    /\ UNCHANGED <<engine, indexes, auto_indexes, vectorstores, stores, b, r2, ck>>

\* lines 130-131
RAG_QuerySearch ==
    /\ engine = "rag"
    /\ r.pc = "l130"
    /\ \/ r' = Raise(r, EncoderFailure)
       \/ LET q_emb == EncodeText(r.question) IN
          IF r.top_k = 0
          THEN \/ r' = Raise(r, SearchRefusal)
               \/ r' = [pc |-> "l133", I |-> <<>>] @@ r
          ELSE \E I \in IndexSearch(r.index, q_emb, r.top_k) :
                   r' = [pc |-> "l133", I |-> I] @@ r
    /\ UNCHANGED <<engine, indexes, auto_indexes, vectorstores, stores, b, r2, ck>>

\* a selection that indexes the chunk list with every label
Selected_NoFilter(I, chunks) == [j \in 1..Len(I) |-> PyIndex(chunks, I[j])]

\* a selection that returns the chunks found in the order of the chunk list
Selected_ChunkOrder(I, chunks) ==
    LET found == SelectSeq([p \in 1..Len(chunks) |-> p - 1],
                           LAMBDA idx : \E j \in 1..Len(I) : I[j] = idx)
    IN  [j \in 1..Len(found) |-> chunks[found[j] + 1]]

\* lines 133-136: the labels that are positions of the chunk list
Selected(I, chunks) ==
    LET kept == SelectSeq(I, LAMBDA idx : 0 <= idx /\ idx < Len(chunks))
    IN  [j \in 1..Len(kept) |-> chunks[kept[j] + 1]]

\* a selection that keeps only the chunks it selected in the shared entry
RAG_QuerySelect_Trim ==
    /\ engine = "rag"
    /\ r.pc = "l133"
    /\ LET selected == Selected(r.I, r.chunks)
           context == Join(selected, ContextSeparator)
       IN  /\ IF r.op = "query"
              THEN r' = Return([selected |-> selected, context |-> context] @@ r,
                               <<context, selected>>)
              ELSE r' = [pc |-> "l147", selected |-> selected,
                         context |-> context] @@ r
           /\ indexes' = IF r.name \in DOMAIN indexes
                         THEN [indexes EXCEPT ![r.name].chunks = selected]
                         ELSE indexes
    /\ UNCHANGED <<engine, auto_indexes, vectorstores, stores, b, r2, ck>>

\* lines 133-139; answer goes on at line 147 with the context
RAG_QuerySelect ==
    /\ engine = "rag"
    /\ r.pc = "l133"
    /\ LET selected == Selected(r.I, r.chunks)
           context == Join(selected, ContextSeparator)
       IN  IF r.op = "query"
           THEN r' = Return([selected |-> selected, context |-> context] @@ r,
                            <<context, selected>>)
           ELSE r' = [pc |-> "l147", selected |-> selected,
                      context |-> context] @@ r
    /\ UNCHANGED <<engine, indexes, auto_indexes, vectorstores, stores, b, r2, ck>>

(***************************************************************************)
(* The generation backend (src/autoresearcher/llm_client.py).  outcome is  *)
(* what the HTTP call to the backend does this time.                       *)
(***************************************************************************)
BackendOutcomes == {"ok", "timeout", "http_error", "connection_error"}

\* the backend's text, stripped
Response == <<"response">>

\* a call_ollama that lets the exception of the HTTP call out
call_ollama_NoCatch(prompt, outcome) ==
    IF outcome = "ok"
    THEN [kind |-> "returned", value |-> Response]
    ELSE [kind |-> "raised", value |-> Exc("RequestException", outcome)]

\* call_ollama: every exception of the HTTP call is caught and returned as
\* the text "[OLLAMA ERROR] <message>"
call_ollama(prompt, outcome) ==
    IF outcome = "ok"
    THEN [kind |-> "returned", value |-> Response]
    ELSE [kind |-> "returned", value |-> <<"[OLLAMA ERROR]", outcome>>]

\* call_llm with one positional argument
call_llm(prompt, outcome) == call_ollama(prompt, outcome)

\* the prompt of RAGEngine.answer (lines 147-159): a fixed template around
\* the question and the context
Prompt(question, context) == [question |-> question, context |-> context]

\* lines 147-160
RAG_AnswerCall ==
    /\ engine = "rag"
    /\ r.pc = "l147"
    /\ \E outcome \in BackendOutcomes :
          LET prompt == Prompt(r.question, r.context)
              res == call_llm(prompt, outcome)
              frame == [prompt |-> prompt, backend |-> outcome,
                        calls |-> r.calls + 1] @@ r
          IN  IF res.kind = "returned"
              THEN r' = Return(frame, res.value)
              ELSE r' = Raise(frame, res.value)
    /\ UNCHANGED <<engine, indexes, auto_indexes, vectorstores, stores, b, r2, ck>>

(***************************************************************************)
(* AutoResearcher (src/autoresearcher/orchestrator.py) and VectorStore     *)
(* (src/autoresearcher/vector_store.py)                                    *)
(***************************************************************************)
\* VectorStore.__init__
VectorStore == [index |-> None, texts |-> <<>>]

\* VectorStore.build
VectorStore_build(chunks) ==
    [index |-> IndexFlatL2(encode_dicts(chunks)), texts |-> chunks]

\* AutoResearcher.index_exists
index_exists(name) == name \in DOMAIN auto_indexes

AR_BuildCall(name, folder) ==
    /\ engine = "auto"
    /\ b.pc = "idle"
    /\ b' = [pc |-> "l18", name |-> name, folder |-> folder]
    /\ UNCHANGED <<engine, indexes, auto_indexes, vectorstores, stores, r, r2, ck>>

\* lines 17-21, with pdf_loader.list_pdfs and pdf_loader.load_pdfs
AR_BuildLoad ==
    /\ engine = "auto"
    /\ b.pc = "l18"
    /\ IF ~Folder(b.folder).isdir
       THEN b' = Raise(b, Exc("ValueError", "Folder does not exist or is not a directory"))
       ELSE IF loader_list_pdfs(b.folder) = <<>>
       THEN b' = Raise(b, Exc("ValueError", "No PDFs found in folder"))
       ELSE LET pages == load_pdfs(b.folder) IN
            IF pages = <<>>
            THEN b' = Raise(b, Exc("ValueError", "No PDF pages extracted."))
            ELSE b' = [pc |-> "l24", pages |-> pages] @@ b
    /\ UNCHANGED <<engine, indexes, auto_indexes, vectorstores, stores, r, r2, ck>>

\* lines 23-27
AR_BuildChunk ==
    /\ engine = "auto"
    /\ b.pc = "l24"
    /\ LET chunks == loader_simple_chunk(b.pages, CharChunkSize, CharOverlap) IN
       IF chunks = <<>>
       THEN b' = Raise(b, Exc("ValueError", "No text chunks created."))
       ELSE b' = [pc |-> "l30", chunks |-> chunks] @@ b
    /\ UNCHANGED <<engine, indexes, auto_indexes, vectorstores, stores, r, r2, ck>>

\* lines 29-31
AR_BuildStore ==
    /\ engine = "auto"
    /\ b.pc = "l30"
    /\ \/ b' = Raise(b, EncoderFailure)
       \/ b' = [pc |-> "l33", store |-> VectorStore_build(b.chunks)] @@ b
    /\ UNCHANGED <<engine, indexes, auto_indexes, vectorstores, stores, r, r2, ck>>

\* line 33
AR_BuildMark ==
    /\ engine = "auto"
    /\ b.pc = "l33"
    /\ auto_indexes' = Put(auto_indexes, b.name, TRUE)
    /\ b' = [pc |-> "l34"] @@ b
    /\ UNCHANGED <<engine, indexes, vectorstores, stores, r, r2, ck>>

\* line 34, and the end of the function
AR_BuildRegister ==
    /\ engine = "auto"
    /\ b.pc = "l34"
    /\ vectorstores' = Put(vectorstores, b.name, b.store)
    /\ b' = Return(b, None)
    /\ UNCHANGED <<engine, indexes, auto_indexes, stores, r, r2, ck>>

\* a caller asks index_exists(name)
AR_IndexExists(name) ==
    /\ engine = "auto"
    /\ r.pc = "idle"
    /\ r' = Return([op |-> "index_exists", name |-> name], index_exists(name))
    /\ UNCHANGED <<engine, indexes, auto_indexes, vectorstores, stores, b, r2, ck>>

AR_AnswerCall(query, index_name) ==
    /\ engine = "auto"
    /\ r.pc = "idle"
    /\ r' = [pc |-> "l37", op |-> "answer", name |-> index_name, question |-> query]
    /\ UNCHANGED <<engine, indexes, auto_indexes, vectorstores, stores, b, r2, ck>>

\* lines 37-38
AR_AnswerCheck ==
    /\ engine = "auto"
    /\ r.pc = "l37"
    /\ IF r.name \notin DOMAIN vectorstores
       THEN r' = Raise(r, Exc("ValueError", "Index not found."))
       ELSE r' = [pc |-> "l41"] @@ r
    /\ UNCHANGED <<engine, indexes, auto_indexes, vectorstores, stores, b, r2, ck>>

\* lines 40-42: line 42 reads self.vector_store, an attribute the object
\* never gets, so the call ends there and lines 45-68 never run
AR_AnswerRetrieve ==
    /\ engine = "auto"
    /\ r.pc = "l41"
    /\ r' = Raise([store |-> vectorstores[r.name]] @@ r,
                  Exc("AttributeError", "vector_store"))
    /\ UNCHANGED <<engine, indexes, auto_indexes, vectorstores, stores, b, r2, ck>>

\* the stores a caller can hold: a registered one, or a new VectorStore()
HeldStores == {vectorstores[n] : n \in DOMAIN vectorstores} \cup {VectorStore}

VS_SearchCall(store, query, top_k) ==
    /\ engine = "auto"
    /\ r.pc = "idle"
    /\ store \in HeldStores
    /\ r' = [pc |-> "l25", op |-> "search", store |-> store, question |-> query,
             top_k |-> top_k]
    /\ UNCHANGED <<engine, indexes, auto_indexes, vectorstores, stores, b, r2, ck>>

\* line 31: self.texts[i] for each label i
Texts(I, texts) == [j \in 1..Len(I) |-> PyIndex(texts, I[j])]

\* VectorStore.search, lines 25-31
VS_Search ==
    /\ engine = "auto"
    /\ r.pc = "l25"
    /\ IF r.store.index = None
       THEN r' = Raise(r, Exc("ValueError", "Index not built."))
       ELSE \/ r' = Raise(r, EncoderFailure)
            \/ LET q_vector == EncodeText(r.question) IN
               IF r.top_k = 0
               THEN \/ r' = Raise(r, SearchRefusal)
                    \/ r' = Return([I |-> <<>>] @@ r, <<>>)
               ELSE \E I \in IndexSearch(r.store.index, q_vector, r.top_k) :
                       r' = Return([I |-> I] @@ r, Texts(I, r.store.texts))
    /\ UNCHANGED <<engine, indexes, auto_indexes, vectorstores, stores, b, r2, ck>>

(***************************************************************************)
(* RAGEngine of src/autoresearcher/rag_engine.py                           *)
(***************************************************************************)
Lite_BuildCall(name, folder) ==
    /\ engine = "lite"
    /\ b.pc = "idle"
    /\ b' = [pc |-> "l40", name |-> name, folder |-> folder]
    /\ UNCHANGED <<engine, indexes, auto_indexes, vectorstores, stores, r, r2, ck>>

\* lines 40-41
Lite_BuildLoad ==
    /\ engine = "lite"
    /\ b.pc = "l40"
    /\ IF ~Folder(b.folder).isdir
       THEN b' = Raise(b, Exc("FileNotFoundError", "listdir"))
       ELSE \E listing \in ListDir(b.folder) :
               LET pages == lite_load_pdfs(lite_list_pdfs(listing)) IN
               b' = [pc |-> "l42", pages |-> pages,
                     chunks |-> lite_chunk(pages, LiteChunkSize)] @@ b
    /\ UNCHANGED <<engine, indexes, auto_indexes, vectorstores, stores, r, r2, ck>>

\* lines 42-44: with no chunk the embedding array has one axis only
Lite_BuildEmbed ==
    /\ engine = "lite"
    /\ b.pc = "l42"
    /\ \/ b' = Raise(b, EncoderFailure)
       \/ IF b.chunks = <<>>
          THEN b' = Raise(b, Exc("IndexError", "tuple index out of range"))
          ELSE b' = [pc |-> "l45", index |-> IndexFlatL2(encode(b.chunks))] @@ b
    /\ UNCHANGED <<engine, indexes, auto_indexes, vectorstores, stores, r, r2, ck>>

\* lines 45-46
Lite_BuildStore ==
    /\ engine = "lite"
    /\ b.pc = "l45"
    /\ stores' = Put(stores, b.name, <<b.index, b.chunks>>)
    /\ b' = Return(b, Len(b.chunks))
    /\ UNCHANGED <<engine, indexes, auto_indexes, vectorstores, r, r2, ck>>

\* retrieve(name, query, k), or answer(name, question), which retrieves
\* with the default k
Lite_ReadCall(op, name, question, k) ==
    /\ engine = "lite"
    /\ r.pc = "idle"
    /\ op = "answer" => k = LiteDefaultK
    /\ r' = [pc |-> "l59", op |-> op, name |-> name, question |-> question,
             top_k |-> k, calls |-> 0]
    /\ UNCHANGED <<engine, indexes, auto_indexes, vectorstores, stores, b, r2, ck>>

\* line 59
Lite_RetrieveLoad ==
    /\ engine = "lite"
    /\ r.pc = "l59"
    /\ IF r.name \notin DOMAIN stores
       THEN r' = Raise(r, Exc("KeyError", r.name))
       ELSE r' = [pc |-> "l60", index |-> stores[r.name][1],
                  chunks |-> stores[r.name][2]] @@ r
    /\ UNCHANGED <<engine, indexes, auto_indexes, vectorstores, stores, b, r2, ck>>

\* lines 60-61
Lite_RetrieveSearch ==
    /\ engine = "lite"
    /\ r.pc = "l60"
    /\ \/ r' = Raise(r, EncoderFailure)
       \/ LET vec == EncodeText(r.question) IN
          IF r.top_k = 0
          THEN \/ r' = Raise(r, SearchRefusal)
               \/ r' = [pc |-> "l62", I |-> <<>>] @@ r
          ELSE \E I \in IndexSearch(r.index, vec, r.top_k) :
                   r' = [pc |-> "l62", I |-> I] @@ r
    /\ UNCHANGED <<engine, indexes, auto_indexes, vectorstores, stores, b, r2, ck>>

\* line 62; answer goes on at line 66 with the context
Lite_RetrieveJoin ==
    /\ engine = "lite"
    /\ r.pc = "l62"
    /\ LET picked == Texts(r.I, r.chunks)
           context == Join(picked, <<"\n">>)
       IN  IF r.op = "retrieve"
           THEN r' = Return([picked |-> picked] @@ r, context)
           ELSE r' = [pc |-> "l66", picked |-> picked, context |-> context] @@ r
    /\ UNCHANGED <<engine, indexes, auto_indexes, vectorstores, stores, b, r2, ck>>

\* line 66 with query_ollama (lines 48-56): nothing catches a failure of
\* the HTTP call
Lite_AnswerCall ==
    /\ engine = "lite"
    /\ r.pc = "l66"
    /\ \E outcome \in BackendOutcomes :
          LET frame == [backend |-> outcome, calls |-> r.calls + 1] @@ r IN
          IF outcome = "ok"
          THEN r' = Return(frame, Response)
          ELSE r' = Raise(frame, Exc("RequestException", outcome))
    /\ UNCHANGED <<engine, indexes, auto_indexes, vectorstores, stores, b, r2, ck>>

(***************************************************************************)
(* The specification                                                       *)
(***************************************************************************)
Next ==
    \/ \E name \in Names, folder \in FolderIds : RAG_BuildCall(name, folder)
    \/ RAG_BuildList
    \/ RAG_BuildChunk
    \/ RAG_BuildEmbed
    \/ RAG_BuildStore
    \/ RAG_BuildReturn
    \/ \E op \in {"query", "answer"}, name \in Names, question \in Questions,
          top_k \in TopKs : RAG_ReadCall(op, name, question, top_k)
    \/ RAG_QueryCheck
    \/ RAG_QueryLoad
    \/ RAG_QuerySearch
    \/ RAG_QuerySelect
    \/ RAG_AnswerCall
    \/ \E name \in Names, folder \in FolderIds : AR_BuildCall(name, folder)
    \/ AR_BuildLoad
    \/ AR_BuildChunk
    \/ AR_BuildStore
    \/ AR_BuildMark
    \/ AR_BuildRegister
    \/ \E name \in Names : AR_IndexExists(name)
    \/ \E name \in Names, query \in Questions : AR_AnswerCall(query, name)
    \/ AR_AnswerCheck
    \/ AR_AnswerRetrieve
    \/ \E store \in HeldStores, query \in Questions, top_k \in TopKs :
          VS_SearchCall(store, query, top_k)
    \/ VS_Search
    \/ \E name \in Names, folder \in FolderIds : Lite_BuildCall(name, folder)
    \/ Lite_BuildLoad
    \/ Lite_BuildEmbed
    \/ Lite_BuildStore
    \/ \E op \in {"retrieve", "answer"}, name \in Names, question \in Questions,
          k \in TopKs \cup {LiteDefaultK} : Lite_ReadCall(op, name, question, k)
    \/ Lite_RetrieveLoad
    \/ Lite_RetrieveSearch
    \/ Lite_RetrieveJoin
    \/ Lite_AnswerCall
    \/ BuildDone
    \/ ReadDone

Spec == Init /\ [][Next]_vars

(***************************************************************************)
(* Vocabulary of the properties                                            *)
(***************************************************************************)
Range(seq) == {seq[i] : i \in 1..Len(seq)}

\* the entry of a dict under a name: <<value>>, or <<>> when there is none
Lookup(dict, name) == IF name \in DOMAIN dict THEN <<dict[name]>> ELSE <<>>

\* everything the three registries hold under one name
Entry(name) ==
    <<Lookup(indexes, name), Lookup(auto_indexes, name),
      Lookup(vectorstores, name), Lookup(stores, name)>>

Registry == <<indexes, auto_indexes, vectorstores, stores>>

\* a thread is inside or just out of a call
InCall(frame) == "name" \in DOMAIN frame

\* the collection one complete run of RAGEngine.build_index makes of a
\* chunk list: the chunks with the index and the embeddings of these chunks
CollectionOf(chunks) ==
    [chunks     |-> chunks,
     index      |-> [d |-> 2, vectors |-> [i \in 1..Len(chunks) |-> EncodeText(chunks[i])]],
     embeddings |-> [i \in 1..Len(chunks) |-> EncodeText(chunks[i])]]

\* the collections complete builds of the folders make
BuiltCollections ==
    {c \in {CollectionOf(all_chunks_of(list_pdfs(l))) :
                l \in UNION {ListDir(f) : f \in FolderIds}} : c.chunks # <<>>}

\* the lines of the three build_index functions that come before the
\* function's first write to the registry
BeforeStore == {"l76", "l83", "l95", "l18", "l24", "l30", "l40", "l42"}

\* the error of RAGEngine.query line 124
IndexNotFound == Exc("ValueError", "Index not found. Build it first.")

\* what the retrieval of RAGEngine.answer can raise
RetrievalErrors == {IndexNotFound, EncoderFailure, SearchRefusal}

\* what query(name, question, top_k) returns on a collection when nothing
\* else runs
QueryResults(data, question, top_k) ==
    LET Is == IF top_k = 0 THEN {<<>>}
              ELSE IndexSearch(data.index, EncodeText(question), top_k)
    IN  {<<Join(Selected(I, data.chunks), ContextSeparator),
           Selected(I, data.chunks)>> : I \in Is}

(***************************************************************************)
(* C1.  RAGEngine: a query interleaved with a rebuild of the same name     *)
(* works on one complete collection.  After every step, the entry a query  *)
(* holds is a collection one complete build made, the index and the chunk  *)
(* list the query works with are the index and the chunk list of that one  *)
(* entry, and the chunks it selects are chunks of it.  The entry it takes  *)
(* is the one registered at that moment: every step of a build before its  *)
(* single store leaves the registry as it is (the old collection stays),   *)
(* and the store puts a complete collection in one step.                   *)
(***************************************************************************)
C1_QueryOldOrNew ==
    [][engine = "rag" =>
         /\ "data" \in DOMAIN r' =>
               /\ r'.data \in BuiltCollections
               /\ r'.index = r'.data.index
               /\ r'.chunks = r'.data.chunks
         /\ "selected" \in DOMAIN r' => Range(r'.selected) \subseteq Range(r'.data.chunks)
         /\ (r.pc = "l126" /\ r' # r) => r'.data = indexes[r.name]
         /\ b.pc # "l104" => indexes' = indexes
         /\ (b.pc = "l104" /\ b' # b) =>
               /\ indexes'[b.name] \in BuiltCollections
               /\ indexes'[b.name].chunks = b.all_chunks
      ]_vars

\* a query holds the old collection of a name whose rebuild has just stored
\* another one
C1_Witness ==
    /\ engine = "rag"
    /\ r.pc = "l133"
    /\ b.pc = "l110"
    /\ b.name = r.name
    /\ r.data # indexes[r.name]
    /\ r.data.chunks # indexes[r.name].chunks

(***************************************************************************)
(* C2.  AutoResearcher: no intermediate state of build_index is            *)
(* observable.  In every state index_exists(name) implies that a built     *)
(* vector store is registered under name, and answer fails with "Index     *)
(* not found." only for a name for which index_exists is false.            *)
(***************************************************************************)
C2_NoIntermediateState ==
    [][engine = "auto" =>
         /\ \A n \in Names :
               (n \in DOMAIN auto_indexes') =>
                   /\ n \in DOMAIN vectorstores'
                   /\ vectorstores'[n].index # None
         /\ (r.pc = "l37" /\ r'.pc = "raised") => ~index_exists(r.name)
      ]_vars

(***************************************************************************)
(* C3.  A build_index call that fails leaves the registry as it was before *)
(* the call.  A call raises only from a line before its first write to the *)
(* registry, and every step a build takes from such a line leaves every    *)
(* entry of every registry as it is.                                       *)
(***************************************************************************)
C3_FailedBuildKeepsRegistry ==
    [][b' # b =>
         /\ b'.pc = "raised" => b.pc \in BeforeStore
         /\ b.pc \in BeforeStore => Registry' = Registry
         /\ b.pc = "idle" => Registry' = Registry
      ]_vars

\* a rebuild of a registered name has failed, another name is registered too
C3_Witness ==
    /\ b.pc = "raised"
    /\ b.raised.msg = "No text chunks extracted from PDFs."
    /\ has_index(b.name)
    /\ \E n \in Names : n # b.name /\ has_index(n)

C5_TopKClamped ==
    (engine = "rag" /\ "I" \in DOMAIN r /\ r.top_k >= 1) =>
        /\ r.pc # "raised"
        /\ "selected" \in DOMAIN r =>
              /\ Len(r.selected) = Min(r.top_k, Len(r.data.chunks))
              /\ Range(r.selected) \subseteq Range(r.data.chunks)
        /\ (r.pc = "returned" /\ r.op = "query") =>
              /\ Len(r.returned[2]) = Min(r.top_k, Len(r.data.chunks))
              /\ Range(r.returned[2]) \subseteq Range(r.data.chunks)

\* top_k is larger than the collection and query has returned
C5_Witness ==
    /\ engine = "rag"
    /\ r.pc = "returned"
    /\ r.op = "query"
    /\ r.top_k > Len(r.data.chunks)
    /\ Len(r.data.chunks) = 2
    /\ Len(r.returned[2]) = 2

(***************************************************************************)
(* C6.  VectorStore.search and RAGEngine.retrieve of the autoresearcher    *)
(* package on a store of n < k chunks return exactly the n chunks: the     *)
(* list has n entries, and no entry stands at the place of a label -1.     *)
(***************************************************************************)
C6_NoSentinelPadding ==
    /\ (engine = "auto" /\ r.pc = "returned" /\ r.op = "search"
          /\ Len(r.store.texts) < r.top_k) =>
            /\ Len(r.returned) = Len(r.store.texts)
            /\ \A j \in 1..Len(r.I) : r.I[j] = -1 => j \notin DOMAIN r.returned
    /\ (engine = "lite" /\ "picked" \in DOMAIN r /\ Len(r.chunks) < r.top_k) =>
            /\ Len(r.picked) = Len(r.chunks)
            /\ \A j \in 1..Len(r.I) : r.I[j] = -1 => j \notin DOMAIN r.picked

(***************************************************************************)
(* C7.  RAGEngine.answer on a registered collection does not raise when    *)
(* the generation backend fails: the step that calls the backend ends the  *)
(* call by a return, whose text is the error marker with the message of    *)
(* the failure, and no step of answer changes a registry.                  *)
(***************************************************************************)
C7_BackendFailureIsText ==
    [][(engine = "rag" /\ "op" \in DOMAIN r /\ r.op = "answer" /\ r' # r) =>
          /\ Registry' = Registry
          /\ r.pc = "l147" =>
                /\ r'.pc = "returned"
                /\ r'.calls = 1
                /\ r'.backend # "ok" => r'.returned = <<"[OLLAMA ERROR]", r'.backend>>
                /\ r'.backend = "ok" => r'.returned = Response
      ]_vars

\* answer has returned the text of a backend timeout
C7_Witness ==
    /\ engine = "rag"
    /\ r.pc = "returned"
    /\ r.op = "answer"
    /\ r.backend = "timeout"
    /\ r.returned = <<"[OLLAMA ERROR]", "timeout">>
    /\ has_index(r.name)

(***************************************************************************)
(* C8.  RAGEngine.answer whose retrieval yields no chunk (top_k = 0 on a   *)
(* registered collection) does not fail at the search, and when it returns *)
(* it has called the backend once with a prompt whose context section is   *)
(* not empty (it holds the note that no context is available).             *)
(***************************************************************************)
C8_NoContextNote ==
    (engine = "rag" /\ "data" \in DOMAIN r /\ r.op = "answer" /\ r.top_k = 0) =>
        /\ r.pc = "raised" => r.raised = EncoderFailure
        /\ r.pc = "returned" =>
              /\ r.calls = 1
              /\ r.prompt.context # <<>>

(***************************************************************************)
(* C9.  In RAGEngine.answer retrieval precedes generation.  The backend is *)
(* called at most once and only when query has returned its chunks and     *)
(* context; a call that raised has not called the backend, and what it     *)
(* raised is the exception of the retrieval step that failed.              *)
(***************************************************************************)
C9_RetrievalBeforeGeneration ==
    (engine = "rag" /\ "op" \in DOMAIN r /\ r.op = "answer") =>
        /\ r.calls <= 1
        /\ r.calls = 1 =>
              /\ "selected" \in DOMAIN r
              /\ "context" \in DOMAIN r
              /\ r.prompt = Prompt(r.question, Join(r.selected, ContextSeparator))
        /\ r.pc = "raised" =>
              /\ r.calls = 0
              /\ r.raised \in RetrievalErrors
              /\ "selected" \notin DOMAIN r

\* answer has raised the failure of its search step, the backend not called
C9_Witness ==
    /\ engine = "rag"
    /\ r.pc = "raised"
    /\ r.op = "answer"
    /\ r.raised = SearchRefusal
    /\ r.calls = 0
    /\ has_index(r.name)

(***************************************************************************)
(* C10.  build_index(X) leaves every other name alone.  Every step of a    *)
(* build of X, the failing ones too, leaves the entries of every name      *)
(* Y # X as they are; a query of Y takes the entry of Y as registered and  *)
(* returns a result of the search of that entry alone.                     *)
(***************************************************************************)
C10_OtherNamesUntouched ==
    [][/\ (b' # b /\ InCall(b)) =>
             \A y \in Names \ {b.name} : Entry(y)' = Entry(y)
       /\ (engine = "rag" /\ r.pc = "l126" /\ r' # r) =>
             <<r'.data>> = Lookup(indexes, r.name)
       /\ (engine = "rag" /\ r.pc = "l133" /\ r'.pc = "returned") =>
             r'.returned \in QueryResults(r.data, r.question, r.top_k)
      ]_vars

\* a query of one name has returned while the rebuild of another name is
\* about to store, a third build having failed before
C10_Witness ==
    /\ engine = "rag"
    /\ b.pc = "l104"
    /\ r.pc = "returned"
    /\ r.op = "query"
    /\ r.name # b.name
    /\ has_index(b.name)
    /\ r.data = indexes[r.name]
    /\ r.data.chunks # b.all_chunks


(***************************************************************************)
(* Two readers of one RAGEngine (src/rag_engine.py).  The second thread    *)
(* runs the same code of query and answer on its own frame r2; the         *)
(* registry holds a collection a build has stored and no build runs.       *)
(***************************************************************************)
RAG2_ReadCall(op, name, question, top_k) ==
    /\ engine = "rag"
    /\ r2.pc = "idle"
    /\ r2' = [pc |-> "l123", op |-> op, name |-> name, question |-> question,
              top_k |-> top_k, calls |-> 0]
    /\ UNCHANGED <<engine, indexes, auto_indexes, vectorstores, stores, b, r, ck>>

\* lines 123-124
RAG2_QueryCheck ==
    /\ engine = "rag"
    /\ r2.pc = "l123"
    /\ IF r2.name \notin DOMAIN indexes
       THEN r2' = Raise(r2, Exc("ValueError", "Index not found. Build it first."))
       ELSE r2' = [pc |-> "l126"] @@ r2
    /\ UNCHANGED <<engine, indexes, auto_indexes, vectorstores, stores, b, r, ck>>

\* lines 126-128
RAG2_QueryLoad ==
    /\ engine = "rag"
    /\ r2.pc = "l126"
    /\ LET data == indexes[r2.name] IN
       r2' = [pc |-> "l130", data |-> data, index |-> data.index,
              chunks |-> data.chunks] @@ r2
    /\ UNCHANGED <<engine, indexes, auto_indexes, vectorstores, stores, b, r, ck>>

\* lines 130-131
RAG2_QuerySearch ==
    /\ engine = "rag"
    /\ r2.pc = "l130"
    /\ \/ r2' = Raise(r2, EncoderFailure)
       \/ LET q_emb == EncodeText(r2.question) IN
          IF r2.top_k = 0
          THEN \/ r2' = Raise(r2, SearchRefusal)
               \/ r2' = [pc |-> "l133", I |-> <<>>] @@ r2
          ELSE \E I \in IndexSearch(r2.index, q_emb, r2.top_k) :
                   r2' = [pc |-> "l133", I |-> I] @@ r2
    /\ UNCHANGED <<engine, indexes, auto_indexes, vectorstores, stores, b, r, ck>>

\* lines 133-139
RAG2_QuerySelect ==
    /\ engine = "rag"
    /\ r2.pc = "l133"
    /\ LET selected == Selected(r2.I, r2.chunks)
           context == Join(selected, ContextSeparator)
       IN  IF r2.op = "query"
           THEN r2' = Return([selected |-> selected, context |-> context] @@ r2,
                             <<context, selected>>)
           ELSE r2' = [pc |-> "l147", selected |-> selected,
                       context |-> context] @@ r2
    /\ UNCHANGED <<engine, indexes, auto_indexes, vectorstores, stores, b, r, ck>>

\* lines 147-160
RAG2_AnswerCall ==
    /\ engine = "rag"
    /\ r2.pc = "l147"
    /\ \E outcome \in BackendOutcomes :
          LET prompt == Prompt(r2.question, r2.context)
              res == call_llm(prompt, outcome)
              frame == [prompt |-> prompt, backend |-> outcome,
                        calls |-> r2.calls + 1] @@ r2
          IN  IF res.kind = "returned"
              THEN r2' = Return(frame, res.value)
              ELSE r2' = Raise(frame, res.value)
    /\ UNCHANGED <<engine, indexes, auto_indexes, vectorstores, stores, b, r, ck>>

\* the second caller takes the outcome of its finished read operation
Read2Done ==
    /\ r2.pc \in {"returned", "raised"}
    /\ r2' = Idle
    /\ UNCHANGED <<engine, indexes, auto_indexes, vectorstores, stores, b, r, ck>>

\* the registries in which "pets" is the one built collection
ReaderRegistries == {Put(<<>>, "pets", c) : c \in BuiltCollections}

InitReaders ==
    /\ engine = "rag"
    /\ indexes \in ReaderRegistries
    /\ auto_indexes = <<>>
    /\ vectorstores = <<>>
    /\ stores = <<>>
    /\ b = Idle
    /\ r = Idle
    /\ r2 = Idle
    /\ ck = Idle

NextReaders ==
    \/ \E op \in {"query", "answer"}, name \in Names, question \in Questions,
          top_k \in TopKs : RAG_ReadCall(op, name, question, top_k)
    \/ RAG_QueryCheck
    \/ RAG_QueryLoad
    \/ RAG_QuerySearch
    \/ RAG_QuerySelect
    \/ RAG_AnswerCall
    \/ ReadDone
    \/ \E op \in {"query", "answer"}, name \in Names, question \in Questions,
          top_k \in TopKs : RAG2_ReadCall(op, name, question, top_k)
    \/ RAG2_QueryCheck
    \/ RAG2_QueryLoad
    \/ RAG2_QuerySearch
    \/ RAG2_QuerySelect
    \/ RAG2_AnswerCall
    \/ Read2Done

SpecReaders == InitReaders /\ [][NextReaders]_vars

\* what a read operation that returned would return on the registered
\* collection when nothing else runs
ReturnsAsAlone(frame, reg) ==
    frame.pc = "returned" =>
        LET alone == QueryResults(reg[frame.name], frame.question, frame.top_k)
        IN  IF frame.op = "query"
            THEN frame.returned \in alone
            ELSE \E res \in alone :
                    frame.returned =
                        call_llm(Prompt(frame.question, res[1]), frame.backend).value

(***************************************************************************)
(* C11.  RAGEngine.query and RAGEngine.answer are read-only with respect   *)
(* to the registry: every step of either operation, also the step in which *)
(* the generation backend fails, leaves the registry as it was; and of two *)
(* read operations interleaved in any order on the same registry, each     *)
(* that returns returns what it would return on that registry alone.       *)
(***************************************************************************)
C11_ReadsLeaveRegistry ==
    [][/\ Registry' = Registry
       /\ ReturnsAsAlone(r', indexes)
       /\ ReturnsAsAlone(r2', indexes)
      ]_vars

\* two queries with different questions have both returned from one
\* collection, and an answer has returned after a failure of the backend
C11_Witness ==
    /\ r.pc = "returned"
    /\ r2.pc = "returned"
    /\ r.name = r2.name
    /\ r.question # r2.question
    /\ r.op = "query"
    /\ r2.op = "answer"
    /\ r2.backend # "ok"

\* a folder whose PDFs yield no page with text
NoPages(f) ==
    /\ Folder(f).isdir
    /\ \A file \in Folder(f).files :
          IsPdfLower(file.name) => PagesOfFile(file) = <<>>

\* the errors build_index raises when chunking yields no chunk
\* (rag_engine.py line 91, orchestrator.py line 27)
EmptyChunkSetErrors ==
    {Exc("ValueError", "No text chunks extracted from PDFs."),
     Exc("ValueError", "No text chunks created.")}

(***************************************************************************)
(* C12.  build_index reports two distinguishable failure kinds: a build    *)
(* that fails because the document set yields zero pages raises an error   *)
(* of another kind (exception type) than the error raised when chunking    *)
(* yields zero chunks.                                                     *)
(***************************************************************************)
C12_DistinctFailureKinds ==
    (engine \in {"rag", "auto"} /\ b.pc = "raised" /\ NoPages(b.folder)) =>
        \A e \in EmptyChunkSetErrors : b.raised.type # e.type

(***************************************************************************)
(* C13.  Rebuilding a collection from the same folder yields the same      *)
(* chunk sequence whatever order the directory listing returns the files   *)
(* in: the chunk list a build has made is the chunk list every listing of  *)
(* its folder gives.                                                       *)
(***************************************************************************)
C13_ChunksIndependentOfListing ==
    /\ (engine = "rag" /\ "all_chunks" \in DOMAIN b) =>
          \A l \in ListDir(b.folder) : all_chunks_of(list_pdfs(l)) = b.all_chunks
    /\ (engine = "auto" /\ "chunks" \in DOMAIN b) =>
          b.chunks = loader_simple_chunk(load_pdfs(b.folder), CharChunkSize, CharOverlap)

(***************************************************************************)
(* C16.  AutoResearcher.answer(query, index_name), for an index_name whose *)
(* build_index completed, does not fail: once the call has found the       *)
(* registered store it returns, after one call of the generation backend.  *)
(***************************************************************************)
C16_AnswerReturns ==
    (engine = "auto" /\ "store" \in DOMAIN r /\ r.op = "answer"
        /\ r.pc \in {"returned", "raised"}) =>
        (r.pc = "returned" /\ r.calls = 1)

(***************************************************************************)
(* Direct calls of the chunkers, one loop iteration per step:              *)
(* rag_engine.simple_chunk (fn "word"), pdf_loader.simple_chunk (fn        *)
(* "char") and RAGEngine.chunk of src/autoresearcher/rag_engine.py (fn     *)
(* "lite").  The frame ck holds the arguments and the locals of the call;  *)
(* windows lists, for every chunk appended, the values start and end had   *)
(* at the append.  None of the functions checks chunk_size or overlap, so  *)
(* the arguments range over invalid configurations as well.                *)
(***************************************************************************)
MaxTextLen == 4
MaxWords == 4
MaxChunkSize == 3

\* an iteration is taken while fewer than ChunkCap chunks are held: more
\* than any call with a valid configuration appends for these inputs
ChunkCap == MaxTextLen + MaxWords

Alphabet == {"a", "b", " "}

TextsUpTo(n) == UNION {[1..k -> Alphabet] : k \in 0..n}

\* texts of up to MaxWords one-letter words
WordTexts ==
    {Join(ws, <<" ">>) : ws \in UNION {[1..k -> {<<"a">>, <<"b">>}] : k \in 1..MaxWords}}

ChunkSizes == -1..MaxChunkSize
Overlaps == -1..MaxChunkSize

\* a page dict as load_pdfs makes it
Page(fname, pageno, text) ==
    [id       |-> <<fname, pageno>>,
     text     |-> text,
     metadata |-> [source |-> fname, page |-> pageno, filename |-> fname]]

\* page lists: one page, or a page followed by a short page of the same
\* file or of another file
PageLists ==
    LET A == [stem |-> "a", ext |-> ".pdf"]
        B == [stem |-> "B", ext |-> ".PDF"]
        second == {Page(A, 2, <<"a">>), Page(A, 2, <<" ">>), Page(B, 1, <<"b">>)}
    IN  {<<Page(A, 1, t)>> : t \in TextsUpTo(MaxTextLen)}
        \cup {<<Page(A, 1, t), p>> : t \in TextsUpTo(MaxTextLen), p \in second}

\* s[lo:hi] of Python for any integers: a negative position counts from
\* the end, positions beyond the ends are clipped
PySlice(s, lo, hi) ==
    LET n == Len(s)
        pos(i) == IF i < 0 THEN Max(n + i, 0) ELSE Min(i, n)
    IN  Slice(s, pos(lo), pos(hi))

ValidConfig(chunk_size, overlap) ==
    chunk_size > 0 /\ 0 <= overlap /\ overlap < chunk_size

\* rag_engine.simple_chunk lines 30-33
W_Enter ==
    /\ ck.pc = "call"
    /\ ck.fn = "word"
    /\ LET words == Split(ck.text) IN
       ck' = [pc |-> "l35", words |-> words, chunks |-> <<>>, start |-> 0,
              n |-> Len(words), windows |-> <<>>] @@ ck
    /\ UNCHANGED <<engine, indexes, auto_indexes, vectorstores, stores, b, r, r2>>

\* line 39: if chunk.strip()
WordKeeps(chunk) == Strip(chunk) # <<>>

\* line 42
WordNextStart(end, overlap) == Max(end - overlap, 0)

\* one iteration of the while loop, lines 35-42, and the return of line 44
W_Loop ==
    /\ ck.pc = "l35"
    /\ Len(ck.chunks) < ChunkCap
    /\ IF ~(ck.start < ck.n)
       THEN ck' = Return(ck, ck.chunks)
       ELSE LET end == Min(ck.start + ck.chunk_size, ck.n)
                chunk == Join(PySlice(ck.words, ck.start, end), <<" ">>)
                keeps == WordKeeps(chunk)
                chunks == IF keeps THEN Append(ck.chunks, chunk) ELSE ck.chunks
                windows == IF keeps
                           THEN Append(ck.windows, [start |-> ck.start, end |-> end])
                           ELSE ck.windows
                frame == [chunks |-> chunks, windows |-> windows, end |-> end] @@ ck
            IN  IF end = ck.n
                THEN ck' = Return(frame, chunks)
                ELSE ck' = [start |-> WordNextStart(end, ck.overlap)] @@ frame
    /\ UNCHANGED <<engine, indexes, auto_indexes, vectorstores, stores, b, r, r2>>

\* pdf_loader.simple_chunk lines 90-91
C_Enter ==
    /\ ck.pc = "call"
    /\ ck.fn = "char"
    /\ ck' = [pc |-> "l93", chunks |-> <<>>, chunk_counter |-> 0, i |-> 0,
              windows |-> <<>>] @@ ck
    /\ UNCHANGED <<engine, indexes, auto_indexes, vectorstores, stores, b, r, r2>>

\* the for loop over the pages, lines 93-98, and the return of line 121
C_Page ==
    /\ ck.pc = "l93"
    /\ IF ck.i = Len(ck.pages)
       THEN ck' = Return(ck, ck.chunks)
       ELSE LET page == ck.pages[ck.i + 1] IN
            ck' = [pc |-> "l100", i |-> ck.i + 1, page |-> page, start |-> 0,
                   n |-> Len(page.text)] @@ ck
    /\ UNCHANGED <<engine, indexes, auto_indexes, vectorstores, stores, b, r, r2>>

\* the id of a chunk without the counter
ChunkId_PageOnly(page, chunk_counter) == page.id

\* line 109: f'{page["id"]}_c{chunk_counter}'
ChunkId(page, chunk_counter) == Append(page.id, chunk_counter)

\* the next window starts one window back: no advance
CharNextStart_NoAdvance(end, chunk_size, overlap) == Max(0, end - chunk_size)

\* line 119
CharNextStart(end, chunk_size, overlap) == Max(0, end - overlap)

\* line 103 with no test: the window is emitted whatever it holds
CharSkips_Never(chunk_text) == FALSE

\* line 103: if not chunk_text
CharSkips(chunk_text) == chunk_text = <<>>

\* one iteration of the while loop, lines 100-119
C_Loop ==
    /\ ck.pc = "l100"
    /\ Len(ck.chunks) < ChunkCap
    /\ IF ~(ck.start < ck.n)
       THEN ck' = [pc |-> "l93"] @@ ck
       ELSE LET end == Min(ck.start + ck.chunk_size, ck.n)
                chunk_text == Strip(PySlice(ck.page.text, ck.start, end))
            IN  IF CharSkips(chunk_text)
                THEN ck' = [pc |-> "l93", end |-> end] @@ ck
                ELSE LET chunks == Append(ck.chunks,
                                     [id       |-> ChunkId(ck.page, ck.chunk_counter),
                                      text     |-> chunk_text,
                                      metadata |-> ck.page.metadata])
                         frame == [chunks |-> chunks,
                                   chunk_counter |-> ck.chunk_counter + 1,
                                   windows |-> Append(ck.windows,
                                                [page |-> ck.i, start |-> ck.start,
                                                 end |-> end]),
                                   end |-> end] @@ ck
                     IN  IF end = ck.n
                         THEN ck' = [pc |-> "l93"] @@ frame
                         ELSE ck' = [start |-> CharNextStart(end, ck.chunk_size,
                                                             ck.overlap)] @@ frame
    /\ UNCHANGED <<engine, indexes, auto_indexes, vectorstores, stores, b, r, r2>>

\* RAGEngine.chunk of src/autoresearcher/rag_engine.py, lines 28-34:
\* range(0, len(words), size) raises ValueError for size 0 and is empty
\* for a negative size
L_Chunk ==
    /\ ck.pc = "call"
    /\ ck.fn = "lite"
    /\ IF ck.size = 0 /\ ck.texts # <<>>
       THEN ck' = Raise(ck, Exc("ValueError", "range() arg 3 must not be zero"))
       ELSE IF ck.size < 0
       THEN ck' = Return(ck, <<>>)
       ELSE ck' = Return(ck, lite_chunk(ck.texts, ck.size))
    /\ UNCHANGED <<engine, indexes, auto_indexes, vectorstores, stores, b, r, r2>>

\* the calls: the arguments of one call of one chunker
ChunkCalls ==
    {[pc |-> "call", fn |-> "word", text |-> t, chunk_size |-> cs, overlap |-> ov] :
        t \in TextsUpTo(MaxTextLen) \cup WordTexts, cs \in ChunkSizes, ov \in Overlaps}
    \cup
    {[pc |-> "call", fn |-> "char", pages |-> ps, chunk_size |-> cs, overlap |-> ov] :
        ps \in PageLists, cs \in ChunkSizes, ov \in Overlaps}
    \cup
    {[pc |-> "call", fn |-> "lite", texts |-> <<t>>, size |-> size] :
        t \in TextsUpTo(MaxTextLen) \cup WordTexts, size \in ChunkSizes}

InitChunk ==
    /\ engine = "none"
    /\ indexes = <<>>
    /\ auto_indexes = <<>>
    /\ vectorstores = <<>>
    /\ stores = <<>>
    /\ b = Idle
    /\ r = Idle
    /\ r2 = Idle
    /\ ck \in ChunkCalls

NextChunk ==
    \/ W_Enter
    \/ W_Loop
    \/ C_Enter
    \/ C_Page
    \/ C_Loop
    \/ L_Chunk

SpecChunk == InitChunk /\ [][NextChunk]_vars

(***************************************************************************)
(* Vocabulary of the chunker properties                                    *)
(***************************************************************************)
\* a call of rag_engine.simple_chunk or pdf_loader.simple_chunk
SimpleChunkCall == "fn" \in DOMAIN ck /\ ck.fn \in {"word", "char"}

ValidCall == SimpleChunkCall /\ ValidConfig(ck.chunk_size, ck.overlap)

\* the last k elements of a sequence
Last(s, k) == SubSeq(s, Len(s) - k + 1, Len(s))

\* chunk k + 1 begins with exactly the last overlap units of chunk k
BeginsWithEndOf(prev, next, overlap) ==
    /\ Len(prev) >= overlap
    /\ Len(next) >= overlap
    /\ SubSeq(next, 1, overlap) = Last(prev, overlap)

\* the positions 1..Len(text) of a text that hold a non-whitespace character
Inked(text) == {j \in 1..Len(text) : text[j] \notin Whitespace}

(***************************************************************************)
(* C14.  The chunkers reject an invalid configuration: a call of either    *)
(* simple_chunk with chunk_size <= 0, overlap < 0 or overlap >=            *)
(* chunk_size does nothing but fail with ConfigError; it neither enters    *)
(* its loop nor returns chunks.                                            *)
(***************************************************************************)
C14_InvalidConfigRejected ==
    (SimpleChunkCall /\ ~ValidConfig(ck.chunk_size, ck.overlap) /\ ck.pc # "call") =>
        (ck.pc = "raised" /\ ck.raised.type = "ConfigError")

(***************************************************************************)
(* C15.  pdf_loader.simple_chunk with a valid configuration: when the call *)
(* has returned, every non-whitespace character position of every page     *)
(* lies inside the window of at least one chunk emitted for that page.     *)
(* Stated for the pages load_pdfs yields, whose text has no whitespace at  *)
(* either end.                                                             *)
(***************************************************************************)
C15_WindowsCoverPage ==
    (ValidCall /\ ck.fn = "char" /\ ck.pc = "returned"
        /\ \A p \in 1..Len(ck.pages) : Strip(ck.pages[p].text) = ck.pages[p].text) =>
        \A p \in 1..Len(ck.pages) :
            \A j \in Inked(ck.pages[p].text) :
                \E k \in 1..Len(ck.windows) :
                    /\ ck.windows[k].page = p
                    /\ ck.windows[k].start < j
                    /\ j <= ck.windows[k].end

(***************************************************************************)
(* C17.  With a valid configuration, consecutive chunks of the same text   *)
(* overlap by exactly overlap units: each chunk after the first begins     *)
(* with exactly the last overlap words (rag_engine.simple_chunk) or the    *)
(* last overlap characters (pdf_loader.simple_chunk, chunks of one page)   *)
(* of the chunk emitted before it.                                         *)
(***************************************************************************)
C17_ChunksOverlap ==
    (ValidCall /\ "chunks" \in DOMAIN ck) =>
        \A k \in 1..(Len(ck.chunks) - 1) :
            IF ck.fn = "word"
            THEN BeginsWithEndOf(Split(ck.chunks[k]), Split(ck.chunks[k + 1]),
                                 ck.overlap)
            ELSE ck.windows[k].page = ck.windows[k + 1].page =>
                    BeginsWithEndOf(ck.chunks[k].text, ck.chunks[k + 1].text,
                                    ck.overlap)

\* a call in progress keeps running: every step of the chunkers is taken
\* as long as it is possible
SpecChunkFair == SpecChunk /\ WF_vars(NextChunk)

\* an iteration of a while loop that does not leave the loop
LoopGoesOn == ck.pc \in {"l35", "l100"} /\ ck'.pc = ck.pc

(***************************************************************************)
(* C18.  For every input and every valid configuration, the chunking loop  *)
(* of both simple_chunk functions terminates: every call returns, no loop  *)
(* is cut off, and in every iteration that does not leave the loop the     *)
(* start offset increases by exactly chunk_size - overlap, which is at     *)
(* least 1, and stays below the length of the text.                        *)
(***************************************************************************)
C18_LoopTerminates ==
    /\ [][ValidCall =>
            /\ LoopGoesOn =>
                  /\ ck'.start = ck.start + (ck.chunk_size - ck.overlap)
                  /\ ck.chunk_size - ck.overlap >= 1
                  /\ ck'.start > ck.start
                  /\ ck'.start < ck.n
            /\ ck'.pc \in {"l35", "l100"} => Len(ck'.chunks) < ChunkCap
         ]_vars
    /\ (ValidCall ~> ck.pc = "returned")

\* a call with a valid configuration and an overlap has returned after its
\* loop went round at least twice
C18_Witness ==
    /\ ValidCall
    /\ ck.pc = "returned"
    /\ ck.overlap >= 1
    /\ Len(ck.windows) >= 3
    /\ ck.windows[3].start = 2 * (ck.chunk_size - ck.overlap)

\* the texts of the chunks a call holds or has returned
ChunkTexts ==
    IF ck.fn = "lite"
    THEN (IF ck.pc = "returned" THEN ck.returned ELSE <<>>)
    ELSE IF "chunks" \notin DOMAIN ck THEN <<>>
    ELSE IF ck.fn = "word" THEN ck.chunks
    ELSE [k \in 1..Len(ck.chunks) |-> ck.chunks[k].text]

(***************************************************************************)
(* C19.  No chunker ever emits an empty chunk: for every input and every   *)
(* configuration, every chunk held or returned by rag_engine.simple_chunk, *)
(* pdf_loader.simple_chunk and RAGEngine.chunk of autoresearcher has a     *)
(* text that is non-empty after trimming, and an empty or whitespace-only  *)
(* text or page contributes no chunk.                                      *)
(***************************************************************************)
C19_NoEmptyChunk ==
    "fn" \in DOMAIN ck =>
        /\ \A k \in 1..Len(ChunkTexts) : Strip(ChunkTexts[k]) # <<>>
        /\ (ck.fn = "word" /\ Strip(ck.text) = <<>>) => ChunkTexts = <<>>
        /\ (ck.fn = "lite" /\ Strip(ck.texts[1]) = <<>>) => ChunkTexts = <<>>
        /\ (ck.fn = "char" /\ "chunks" \in DOMAIN ck) =>
              \A k \in 1..Len(ck.chunks) :
                  Strip(ck.pages[ck.windows[k].page].text) # <<>>

\* a call of pdf_loader.simple_chunk has returned chunks of a page list
\* that holds a whitespace-only page
C19_Witness ==
    /\ "fn" \in DOMAIN ck
    /\ ck.fn = "char"
    /\ ck.pc = "returned"
    /\ ck.returned # <<>>
    /\ \E p \in 1..Len(ck.pages) :
          ck.pages[p].text # <<>> /\ Strip(ck.pages[p].text) = <<>>

(***************************************************************************)
(* C20.  Within the chunk list pdf_loader.simple_chunk makes for the pages *)
(* of one folder, chunk ids are pairwise distinct: no two chunks, of the   *)
(* same page, of different pages or of different files, share an id.       *)
(***************************************************************************)
C20_ChunkIdsDistinct ==
    ("fn" \in DOMAIN ck /\ ck.fn = "char" /\ "chunks" \in DOMAIN ck) =>
        \A j, k \in 1..Len(ck.chunks) :
            j # k => ck.chunks[j].id # ck.chunks[k].id

\* a returned chunk list with two chunks of one page and a chunk of
\* another file
C20_Witness ==
    /\ "fn" \in DOMAIN ck
    /\ ck.fn = "char"
    /\ ck.pc = "returned"
    /\ Len(ck.returned) >= 3
    /\ ck.windows[1].page = ck.windows[2].page
    /\ ck.returned[1].metadata.source # ck.returned[Len(ck.returned)].metadata.source

\* s is a contiguous substring of t
IsSubstring(s, t) ==
    \E i \in 0..(Len(t) - Len(s)) : SubSeq(t, i + 1, i + Len(s)) = s

\* the page texts of the documents of a folder
PageTexts(f) ==
    UNION {Range(file.pages) : file \in Folder(f).files}

(***************************************************************************)
(* C21.  Every chunk RAGEngine.build_index registers has a text that is a  *)
(* contiguous substring of the text of one page of one document of the     *)
(* folder it was built from: when the build has stored its collection,     *)
(* each chunk of the collection occurs in some page text of the folder.    *)
(***************************************************************************)
C21_ChunkWithinOnePage ==
    (engine = "rag" /\ b.pc = "l110") =>
        \A k \in 1..Len(indexes[b.name].chunks) :
            \E page \in PageTexts(b.folder) :
                IsSubstring(indexes[b.name].chunks[k], page)

\* where the j-th of the texts starts in their concatenation with sep
RECURSIVE OffsetIn(_, _, _)
OffsetIn(texts, sep, j) ==
    IF j = 1 THEN 0
    ELSE OffsetIn(texts, sep, j - 1) + Len(texts[j - 1]) + Len(sep)

(***************************************************************************)
(* C22.  RAGEngine.query returns its chunks in exactly the order in which  *)
(* the index search ranked their positions, nearest first: the chunk of    *)
(* the p-th label that is a position of the chunk list stands at the       *)
(* place given by the number of such labels up to p, nothing else is       *)
(* returned, the distances to the question do not decrease along the       *)
(* list, and the context is these chunk texts in the same order with the   *)
(* fixed separator between them.                                           *)
(***************************************************************************)
C22_RankOrderKept ==
    (engine = "rag" /\ "selected" \in DOMAIN r) =>
        LET InList(p) == 0 <= r.I[p] /\ r.I[p] < Len(r.chunks)
            Place(p) == Cardinality({q \in 1..p : InList(q)})
            q_emb == EncodeText(r.question)
            m == Len(r.selected)
        IN  /\ m = Cardinality({p \in 1..Len(r.I) : InList(p)})
            /\ \A p \in 1..Len(r.I) :
                  InList(p) => r.selected[Place(p)] = r.chunks[r.I[p] + 1]
            /\ \A j \in 1..(m - 1) :
                  L2(EncodeText(r.selected[j]), q_emb)
                      <= L2(EncodeText(r.selected[j + 1]), q_emb)
            /\ Len(r.context) =
                  IF m = 0 THEN 0
                  ELSE OffsetIn(r.selected, ContextSeparator, m) + Len(r.selected[m])
            /\ \A j \in 1..m :
                  LET at == OffsetIn(r.selected, ContextSeparator, j) IN
                  /\ SubSeq(r.context, at + 1, at + Len(r.selected[j])) = r.selected[j]
                  /\ j < m =>
                        SubSeq(r.context, at + Len(r.selected[j]) + 1,
                               at + Len(r.selected[j]) + Len(ContextSeparator))
                            = ContextSeparator
            /\ (r.pc = "returned" /\ r.op = "query") =>
                  r.returned = <<r.context, r.selected>>

\* a query has returned two chunks, the second chunk of the list first
\* because it is strictly nearer to the question
C22_Witness ==
    /\ engine = "rag"
    /\ "selected" \in DOMAIN r
    /\ r.pc = "returned"
    /\ r.op = "query"
    /\ Len(r.selected) = 2
    /\ r.I[1] = 1
    /\ r.I[2] = 0
    /\ L2(EncodeText(r.selected[1]), EncodeText(r.question))
          < L2(EncodeText(r.selected[2]), EncodeText(r.question))

\* a collection with at least one chunk whose embedding array and index
\* hold one vector per chunk, in the order of the chunks
Complete(c) ==
    /\ Len(c.chunks) >= 1
    /\ Len(c.embeddings) = Len(c.chunks)
    /\ Len(c.index.vectors) = Len(c.chunks)
    /\ \A i \in 1..Len(c.chunks) :
          /\ c.embeddings[i] = EncodeText(c.chunks[i])
          /\ c.index.vectors[i] = c.embeddings[i]

(***************************************************************************)
(* C23.  In every reachable state of RAGEngine every collection in the     *)
(* registry is complete: it has at least one chunk and its chunk list, its *)
(* embedding array and its index hold the same number of entries, one      *)
(* vector per chunk in the same order; has_index(name) is true only for    *)
(* such collections.                                                       *)
(***************************************************************************)
C23_RegisteredIsComplete ==
    engine = "rag" =>
        /\ \A name \in DOMAIN indexes : Complete(indexes[name])
        /\ \A name \in Names : has_index(name) => Complete(indexes[name])

\* a collection of two chunks is registered, and a build of a folder that
\* yields no chunk has failed and left its name unregistered
C23_Witness ==
    /\ engine = "rag"
    /\ \E name \in Names : has_index(name) /\ Len(indexes[name].chunks) = 2
    /\ b.pc = "raised"
    /\ b.raised = Exc("ValueError", "No text chunks extracted from PDFs.")
    /\ ~has_index(b.name)

=============================================================================
